---- MODULE Spec2Model ----
(***************************************************************************)
(* Data-access layer of edu-people (src/lib/model.js) over one DynamoDB    *)
(* table whose primary key is the attribute ucinetid, together with the    *)
(* resolver that exposes the lookup (the handler text in                   *)
(* src/serverless.yml).                                                    *)
(*                                                                         *)
(* A string that the code inspects character by character (an id, which    *)
(* is lowercased) is a sequence of one-character strings. An object is a   *)
(* function from its own property names to values; a property that is      *)
(* undefined is not in the domain. A value that may be undefined (the      *)
(* Item of a get) is a set with at most one element.                       *)
(*                                                                         *)
(* Four specifications share the variables. Spec: one caller, each         *)
(* operation run to completion in one step (last is the call last made).   *)
(* SpecScan: scanPeople page by page over a table no one writes (scan is   *)
(* the list in progress). SpecCalls: concurrent requests, one backend call *)
(* per step (calls are the calls in flight, last the write last applied).  *)
(* SpecFail: one call at a time over a backend whose calls may fail.       *)
(***************************************************************************)
EXTENDS Integers, Sequences, FiniteSets, TLC

VARIABLES table, last, scan, calls

vars == <<table, last, scan, calls>>

(***************************************************************************)
(* Bounds of the model.                                                    *)
(***************************************************************************)
MaxRoles == 1

(***************************************************************************)
(* JavaScript helpers.                                                     *)
(***************************************************************************)
LowerChar(c) ==
  CASE c = "A" -> "a"
    [] c = "B" -> "b"
    [] c = "C" -> "c"
    [] c = "D" -> "d"
    [] OTHER -> c

\* String.prototype.toLowerCase
toLowerCase(s) == [i \in DOMAIN s |-> LowerChar(s[i])]

\* { ...a, ...b }
Spread(a, b) ==
  [k \in DOMAIN a \cup DOMAIN b |-> IF k \in DOMAIN b THEN b[k] ELSE a[k]]

\* the object o without the property k
Without(o, k) == [j \in DOMAIN o \ {k} |-> o[j]]

\* the object with the single property k
Prop(k, v) == [j \in {k} |-> v]

EmptyObject == [j \in {} |-> 0]

\* JavaScript truthiness of an optional string property
Truthy(o, k) == k \in DOMAIN o /\ o[k] # ""

(***************************************************************************)
(* The DynamoDB DocumentClient calls the module makes. Each returns the    *)
(* error it calls back with ("" for none), the table after the call and    *)
(* the Item it yields.                                                     *)
(***************************************************************************)
NoError == ""
ValidationException == "ValidationException"

Reply(e, t, i) == [err |-> e, table |-> t, item |-> i]

\* get({Key: {ucinetid}}): the item under exactly that key, if any
DdbGet(t, key) ==
  Reply(NoError, t, IF key \in DOMAIN t THEN {t[key]} ELSE {})

\* put merging the Item into the item it finds under Item.ucinetid
DdbPut_Merges(t, item) ==
  LET old == IF item.ucinetid \in DOMAIN t THEN t[item.ucinetid] ELSE EmptyObject
  IN  Reply(NoError, Spread(t, Prop(item.ucinetid, Spread(old, item))), {})

\* put({Item}): unconditional write, replacing any item under Item.ucinetid
DdbPut(t, item) ==
  Reply(NoError, Spread(t, Prop(item.ucinetid, item)), {})

\* the update emptying the map _services of the item besides
DdbUpdateSet_EmptiesServices(t, key, values) ==
  IF DOMAIN values = {}
  THEN Reply(ValidationException, t, {})
  ELSE LET old == IF key \in DOMAIN t THEN t[key] ELSE Prop("ucinetid", key)
           new == Spread(Spread(old, values), Prop("_services", EmptyObject))
       IN  Reply(NoError, Spread(t, Prop(key, new)), {new})

\* update({Key, UpdateExpression: 'set k1 = :k1, ...'}): an empty list of
\* assignments is not a valid expression; an absent item is created first;
\* a value is stored as given, the empty string too
DdbUpdateSet(t, key, values) ==
  IF DOMAIN values = {}
  THEN Reply(ValidationException, t, {})
  ELSE LET old == IF key \in DOMAIN t THEN t[key] ELSE Prop("ucinetid", key)
           new == Spread(old, values)
       IN  Reply(NoError, Spread(t, Prop(key, new)), {new})

\* the nested set writing the whole map _services anew
DdbUpdateSetNested_WholeMap(t, key, name, value) ==
  IF key \in DOMAIN t /\ "_services" \in DOMAIN t[key]
  THEN LET new == Spread(t[key], Prop("_services", Prop(name, value)))
       IN  Reply(NoError, Spread(t, Prop(key, new)), {new})
  ELSE Reply(ValidationException, t, {})

\* update({Key, UpdateExpression: 'set #services.#serviceName = :permission'}):
\* the document path is valid only when the item holds the map _services
DdbUpdateSetNested(t, key, name, value) ==
  IF key \in DOMAIN t /\ "_services" \in DOMAIN t[key]
  THEN LET new == Spread(t[key],
                         Prop("_services", Spread(t[key]["_services"], Prop(name, value))))
       IN  Reply(NoError, Spread(t, Prop(key, new)), {new})
  ELSE Reply(ValidationException, t, {})

\* update({Key, UpdateExpression: 'remove #services.#serviceName'})
DdbUpdateRemoveNested(t, key, name) ==
  IF key \in DOMAIN t /\ "_services" \in DOMAIN t[key]
  THEN LET new == Spread(t[key],
                         Prop("_services", Without(t[key]["_services"], name)))
       IN  Reply(NoError, Spread(t, Prop(key, new)), {new})
  ELSE Reply(ValidationException, t, {})

(***************************************************************************)
(* The operations of the module. Each returns the table after the call,    *)
(* whether the promise resolved (ok), the error it rejected with and the   *)
(* person it resolved with.                                                *)
(***************************************************************************)
Resolved(t, i) == [table |-> t, ok |-> TRUE, err |-> NoError, item |-> i]
Rejected(t, e) == [table |-> t, ok |-> FALSE, err |-> e, item |-> {}]

NotFound == "There is no one with ucinetid"

findPerson(t, ucinetid) ==
  LET r == DdbGet(t, ucinetid)
  IN  IF r.err # NoError THEN Rejected(r.table, r.err) ELSE Resolved(r.table, r.item)

OptionalFields == {"middleName", "email", "photo"}
RequiredFields == {"firstName", "lastName"}

\* the Item createPerson builds
NewItem(person) ==
  LET given == {k \in RequiredFields : k \in DOMAIN person}
                 \cup {k \in OptionalFields : Truthy(person, k)}
  IN  Spread(Spread(Prop("ucinetid", toLowerCase(person.ucinetid)),
                    [k \in given |-> person[k]]),
             Prop("_services", EmptyObject))

\* createPerson keeping the services of the item it replaces
createPerson_KeepServices(t, person) ==
  LET key == toLowerCase(person.ucinetid)
      kept == IF key \in DOMAIN t /\ "_services" \in DOMAIN t[key]
              THEN t[key]["_services"] ELSE EmptyObject
      Item == Spread(NewItem(person), Prop("_services", kept))
      r == DdbPut(t, Item)
  IN  IF r.err # NoError THEN Rejected(r.table, r.err)
      ELSE findPerson(r.table, Item.ucinetid)

createPerson(t, person) ==
  LET Item == NewItem(person)
      r == DdbPut(t, Item)
  IN  IF r.err # NoError THEN Rejected(r.table, r.err)
      ELSE findPerson(r.table, Item.ucinetid)

NotUpdated == {"ucinetid", "service", "services", "_services"}

updatePerson(t, person) ==
  LET values == [k \in DOMAIN person \ NotUpdated |-> person[k]]
      r == DdbUpdateSet(t, person.ucinetid, values)
  IN  IF r.err # NoError THEN Rejected(r.table, r.err)
      ELSE findPerson(r.table, person.ucinetid)

\* upsertPerson looking the person up under the id as written
upsertPerson_RawLookup(t, person) ==
  LET f == findPerson(t, person.ucinetid)
  IN  IF ~f.ok THEN f
      ELSE IF f.item # {} THEN updatePerson(f.table, person)
      ELSE createPerson(f.table, person)

upsertPerson(t, person) ==
  LET f == findPerson(t, toLowerCase(person.ucinetid))
  IN  IF ~f.ok THEN f
      ELSE IF f.item # {} THEN updatePerson(f.table, person)
      ELSE createPerson(f.table, person)

\* setPermission issuing its update without looking the person up first
setPermission_NoLookup(t, id, permission) ==
  LET ucinetid == toLowerCase(id)
      r == DdbUpdateSetNested(t, ucinetid, permission.service, permission)
  IN  IF r.err # NoError THEN Rejected(r.table, r.err)
      ELSE findPerson(r.table, ucinetid)

setPermission(t, id, permission) ==
  LET ucinetid == toLowerCase(id)
      f == findPerson(t, ucinetid)
  IN  IF ~f.ok THEN f
      ELSE IF f.item = {} THEN Rejected(f.table, NotFound)
      ELSE LET r == DdbUpdateSetNested(f.table, ucinetid, permission.service, permission)
           IN  IF r.err # NoError THEN Rejected(r.table, r.err)
               ELSE findPerson(r.table, ucinetid)

removePermission(t, id, service) ==
  LET ucinetid == toLowerCase(id)
      f == findPerson(t, ucinetid)
  IN  IF ~f.ok THEN f
      ELSE IF f.item = {} THEN Rejected(f.table, NotFound)
      ELSE LET r == DdbUpdateRemoveNested(f.table, ucinetid, service)
           IN  IF r.err # NoError THEN Rejected(r.table, r.err)
               ELSE findPerson(r.table, ucinetid)

\* resolvers.Query.person
QueryPerson(t, ucinetid) == findPerson(t, ucinetid)

(***************************************************************************)
(* Inputs. Ids differ in letter case only or name another person. A person *)
(* input carries some of the required fields and one of the Extras; under  *)
(* an id with an uppercase letter it carries required fields only.         *)
(***************************************************************************)
Lower == <<"a", "b">>
Mixed == <<"A", "b">>
Other == <<"c", "d">>

Ids == {Lower, Mixed, Other}

Services == {"svc1", "svc2"}

RolesInputs == UNION {[1..n -> {"admin"}] : n \in 1..MaxRoles}

PermissionInputs ==
  {[service |-> s, roles |-> r, settings |-> [a |-> 1]] : s \in Services, r \in RolesInputs}
    \cup {[service |-> s, roles |-> <<>>] : s \in Services}

RequiredInputs ==
  {EmptyObject, [lastName |-> "Xi"], [firstName |-> "Al", lastName |-> "Wu"]}

Extras ==
  {EmptyObject,
   [middleName |-> ""], [middleName |-> "M"], [email |-> "al@uci.edu"],
   [photo |-> "al.png"],
   [middleName |-> "M", email |-> "al@uci.edu", photo |-> "al.png"],
   [service |-> "svc1"],
   [services |-> [svc1 |-> [roles |-> <<"root">>]]],
   [_services |-> [svc2 |-> [roles |-> <<"root">>]]]}

PersonInputs ==
  {Spread(Spread(Prop("ucinetid", Lower), r), e) : r \in RequiredInputs, e \in Extras}
    \cup {Spread(Prop("ucinetid", Mixed), r) : r \in RequiredInputs}

\* the ids the permission operations are called with
PermissionIds == {Lower, Mixed}

\* the persons a table may hold from the start
OtherPerson ==
  [ucinetid |-> Other, firstName |-> "Cy", lastName |-> "Du",
   _services |-> [svc1 |-> [service |-> "svc1", roles |-> <<"admin">>]]]

LowerPerson ==
  [ucinetid |-> Lower, firstName |-> "Al", lastName |-> "Wu", middleName |-> "M",
   _services |-> [svc1 |-> [service |-> "svc1", roles |-> <<"admin">>,
                            settings |-> [a |-> 1]]]]

InitialTables ==
  {Prop(Other, OtherPerson),
   Spread(Prop(Other, OtherPerson), Prop(Lower, LowerPerson))}

(***************************************************************************)
(* The state machine: a caller that makes one call at a time. A step is    *)
(* one call of one operation, run to completion; last records it: the      *)
(* operation, its arguments, the table it found (pre) and what its promise *)
(* settled with. The caller takes the result before its next call.         *)
(***************************************************************************)
NoCall == [op |-> "none"]

\* no list is running; no caller has a call in flight
NoScan == [state |-> "idle"]

Callers == {"c1", "c2", "c3"}

Idle == [pc |-> "idle"]

NoCalls == [c \in Callers |-> Idle]

Step(op, args, r) ==
  /\ last = NoCall
  /\ table' = r.table
  /\ last' = [op |-> op, args |-> args, pre |-> table,
              ok |-> r.ok, err |-> r.err, item |-> r.item]
  /\ UNCHANGED <<scan, calls>>

Init ==
  /\ table \in InitialTables
  /\ last = NoCall
  /\ scan = NoScan
  /\ calls = NoCalls

FindPerson ==
  \E id \in Ids : Step("person", [ucinetid |-> id], QueryPerson(table, id))

CreatePerson ==
  \E p \in PersonInputs : Step("createPerson", [person |-> p], createPerson(table, p))

UpdatePerson ==
  \E p \in PersonInputs : Step("updatePerson", [person |-> p], updatePerson(table, p))

UpsertPerson ==
  \E p \in PersonInputs : Step("upsertPerson", [person |-> p], upsertPerson(table, p))

SetPermission ==
  \E id \in PermissionIds, perm \in PermissionInputs :
    Step("setPermission", [ucinetid |-> id, permission |-> perm],
         setPermission(table, id, perm))

RemovePermission ==
  \E id \in PermissionIds, s \in Services :
    Step("removePermission", [ucinetid |-> id, service |-> s],
         removePermission(table, id, s))

\* the caller has taken the result of its call
Return ==
  /\ last # NoCall
  /\ last' = NoCall
  /\ UNCHANGED <<table, scan, calls>>

Next ==
  \/ FindPerson
  \/ CreatePerson
  \/ UpdatePerson
  \/ UpsertPerson
  \/ SetPermission
  \/ RemovePermission
  \/ Return

Spec == Init /\ [][Next]_vars

(***************************************************************************)
(* Properties. An id names a person whatever its letter case: the person   *)
(* of id is the record under toLowerCase(id). Each property is stated of   *)
(* the call last records: of the table it found, the table it left and     *)
(* what it settled with.                                                   *)
(***************************************************************************)
Stored(t, id) == toLowerCase(id) \in DOMAIN t

HasServices(t, key) == key \in DOMAIN t /\ "_services" \in DOMAIN t[key]

Called(op) == last.op = op

\* what the call settled with, as the operations return it
Outcome == [table |-> table, ok |-> last.ok, err |-> last.err, item |-> last.item]

\* the records of t other than the one under key are those of u
OthersSame(t, u, key) ==
  /\ DOMAIN u \ {key} = DOMAIN t \ {key}
  /\ \A k \in DOMAIN t \ {key} : u[k] = t[k]

\* C1: every record of the table is stored under a lowercase key, whatever
\* the letter case of the ids the operations were called with.
C1_LowercaseKeys == \A k \in DOMAIN table : k = toLowerCase(k)

\* C2: for a stored person, the lookup of the public entry point returns
\* under the id in any letter case what it returns under the lowercase id.
C2_FindAnyCase ==
  (Called("person") /\ Stored(last.pre, last.args.ucinetid)) =>
    Outcome = QueryPerson(last.pre, toLowerCase(last.args.ucinetid))

\* C3: every record of the table holds the map _services. Stated of the
\* records under lowercase keys, the only ones C1 allows.
C3_ServicesPresent ==
  \A k \in DOMAIN table : k = toLowerCase(k) => "_services" \in DOMAIN table[k]

ValidCreation(p) == RequiredFields \subseteq DOMAIN p

\* C4: after create with a valid input, find with the same id resolves with
\* a record whose services map is empty and that holds no optional field the
\* input did not supply or supplied empty.
C4_CreateThenFind ==
  (Called("createPerson") /\ ValidCreation(last.args.person)) =>
    LET p == last.args.person
        f == QueryPerson(table, p.ucinetid)
    IN  /\ last.ok /\ f.ok
        /\ f.item # {}
        /\ \A r \in f.item :
             /\ "_services" \in DOMAIN r /\ r["_services"] = EmptyObject
             /\ \A k \in OptionalFields : ~Truthy(p, k) => k \notin DOMAIN r

\* C5 as claimed: create, with a valid input, for an id that has a stored
\* record fails and leaves the table as it was.
C5_CreateExistingFails ==
  (Called("createPerson") /\ ValidCreation(last.args.person)
     /\ Stored(last.pre, last.args.person.ucinetid)) =>
    ~last.ok /\ table = last.pre

\* C5 as amended: create for an id that has a stored record resolves, and
\* replaces that record by one made from the input alone: the lowercase id,
\* the required fields given, the optional fields given non-empty and an
\* empty services map. No field or service entry of the old record survives;
\* every other record is unchanged; the new record is what create returns.
\* upsert for such an id replaces nothing: what the stored record holds and
\* the input does not set, its services map included, is still there.
C5_CreateExistingReplaces ==
  /\ (Called("upsertPerson") /\ Stored(last.pre, last.args.person.ucinetid)) =>
       LET p == last.args.person
           key == toLowerCase(p.ucinetid)
       IN  /\ key \in DOMAIN table
           /\ \A k \in DOMAIN last.pre[key] \ (DOMAIN p \ NotUpdated) :
                k \in DOMAIN table[key] /\ table[key][k] = last.pre[key][k]
  /\ (Called("createPerson") /\ Stored(last.pre, last.args.person.ucinetid)) =>
       LET p == last.args.person
           key == toLowerCase(p.ucinetid)
       IN  /\ last.ok
           /\ OthersSame(last.pre, table, key)
           /\ key \in DOMAIN table
           /\ LET r == table[key]
              IN  /\ last.item = {r}
                  /\ r.ucinetid = key
                  /\ "_services" \in DOMAIN r /\ r["_services"] = EmptyObject
                  /\ \A k \in RequiredFields \cup OptionalFields :
                       IF k \in DOMAIN p /\ (k \in RequiredFields \/ p[k] # "")
                       THEN k \in DOMAIN r /\ r[k] = p[k]
                       ELSE k \notin DOMAIN r
                  /\ DOMAIN r \subseteq
                       {"ucinetid", "_services"} \cup RequiredFields \cup OptionalFields

\* a create, called with an id in mixed case, has replaced the record of a
\* stored person that held entries for both services and a middle name
C5_Witness ==
  /\ Called("createPerson") /\ last.ok
  /\ last.args.person.ucinetid = Mixed
  /\ HasServices(last.pre, Lower)
  /\ DOMAIN last.pre[Lower]["_services"] = Services
  /\ "middleName" \in DOMAIN last.pre[Lower]
  /\ table[Lower] # last.pre[Lower]

\* C6: upsert stands for create when the id has no stored record and for
\* update when it has one: same table afterwards, same settlement, same
\* record returned, for every input.
C6_UpsertIsCreateOrUpdate ==
  Called("upsertPerson") =>
    Outcome = IF Stored(last.pre, last.args.person.ucinetid)
              THEN updatePerson(last.pre, last.args.person)
              ELSE createPerson(last.pre, last.args.person)

\* an upsert, called with an id in mixed case, has acted on a stored person
\* as update does
C6_Witness ==
  /\ Called("upsertPerson") /\ last.ok
  /\ last.args.person.ucinetid = Mixed
  /\ Stored(last.pre, Mixed)
  /\ "lastName" \in DOMAIN last.args.person
  /\ table # last.pre

\* C7: update on a stored person sets exactly the fields the input names
\* other than ucinetid, service, services and _services: the record keeps
\* its key, its services map and every other field, and every other record
\* of the table is unchanged.
C7_UpdateFrame ==
  (Called("updatePerson") /\ Stored(last.pre, last.args.person.ucinetid)) =>
    LET p == last.args.person
        key == toLowerCase(p.ucinetid)
        named == DOMAIN p \ NotUpdated
    IN  /\ OthersSame(last.pre, table, key)
        /\ key \in DOMAIN table
        /\ DOMAIN table[key] = DOMAIN last.pre[key] \cup named
        /\ \A k \in DOMAIN table[key] :
             table[key][k] = IF k \in named THEN p[k] ELSE last.pre[key][k]

\* C8: update with no field to set, on a stored person, resolves with the
\* stored record and leaves the table as it was; so does upsert.
C8_EmptyUpdateIsNoop ==
  ((Called("updatePerson") \/ Called("upsertPerson"))
     /\ Stored(last.pre, last.args.person.ucinetid)
     /\ DOMAIN last.args.person \subseteq NotUpdated) =>
    /\ last.ok
    /\ table = last.pre
    /\ last.item = {last.pre[toLowerCase(last.args.person.ucinetid)]}

\* the roles and settings of a permission, as an object
RolesAndSettings(perm) == [k \in DOMAIN perm \cap {"roles", "settings"} |-> perm[k]]

\* C9: after setPermission on a stored person the entry under the
\* permission's service is exactly {roles, settings} of the permission.
C9_SetStoresRolesSettings ==
  (Called("setPermission") /\ Stored(last.pre, last.args.ucinetid)) =>
    LET key == toLowerCase(last.args.ucinetid)
        perm == last.args.permission
    IN  /\ last.ok
        /\ HasServices(table, key)
        /\ perm.service \in DOMAIN table[key]["_services"]
        /\ table[key]["_services"][perm.service] = RolesAndSettings(perm)

\* the service entries of the record under key, but the one under service,
\* are the same in t and u
OtherEntriesSame(t, u, key, service) ==
  HasServices(t, key) =>
    /\ HasServices(u, key)
    /\ DOMAIN u[key]["_services"] \ {service} = DOMAIN t[key]["_services"] \ {service}
    /\ \A s \in DOMAIN t[key]["_services"] \ {service} :
         u[key]["_services"][s] = t[key]["_services"][s]

\* C10: setPermission changes nothing but the entry under the permission's
\* service in the record under the lowercase id: that record's other
\* entries and its other fields are unchanged, and so is every other record.
C10_SetPermissionFrame ==
  Called("setPermission") =>
    LET key == toLowerCase(last.args.ucinetid)
        perm == last.args.permission
    IN  /\ OthersSame(last.pre, table, key)
        /\ (key \in DOMAIN table) = (key \in DOMAIN last.pre)
        /\ key \in DOMAIN last.pre =>
             /\ DOMAIN table[key] = DOMAIN last.pre[key]
             /\ \A k \in DOMAIN table[key] \ {"_services"} :
                  table[key][k] = last.pre[key][k]
             /\ OtherEntriesSame(last.pre, table, key, perm.service)

\* a setPermission, called with an id in mixed case, has written svc2 beside
\* an entry for svc1, in a record with fields of its own and beside the
\* records of others
C10_Witness ==
  /\ Called("setPermission") /\ last.ok
  /\ last.args.ucinetid = Mixed /\ last.args.permission.service = "svc2"
  /\ HasServices(last.pre, Lower)
  /\ DOMAIN last.pre[Lower]["_services"] = {"svc1"}
  /\ DOMAIN table[Lower]["_services"] = {"svc1", "svc2"}
  /\ "email" \in DOMAIN table[Lower]
  /\ Other \in DOMAIN table /\ Mixed \in DOMAIN table

\* C11: removePermission on a stored person resolves; afterwards the
\* services map of the record has no entry under the service, its other
\* entries and the other fields of the record are unchanged, and so is
\* every other record. When the map had no entry under the service (as on a
\* second identical call) the table is left as it was.
C11_RemoveIsIdempotent ==
  (Called("removePermission") /\ Stored(last.pre, last.args.ucinetid)) =>
    LET key == toLowerCase(last.args.ucinetid)
        service == last.args.service
        had == HasServices(last.pre, key)
                 /\ service \in DOMAIN last.pre[key]["_services"]
    IN  /\ last.ok
        /\ OthersSame(last.pre, table, key)
        /\ key \in DOMAIN table
        /\ DOMAIN table[key] = DOMAIN last.pre[key]
        /\ \A k \in DOMAIN table[key] \ {"_services"} :
             table[key][k] = last.pre[key][k]
        /\ OtherEntriesSame(last.pre, table, key, service)
        /\ HasServices(table, key) => service \notin DOMAIN table[key]["_services"]
        /\ ~had => table = last.pre

\* C12: setPermission and removePermission, called with an id whose
\* lowercase form has no stored record, reject with the NotFound error and
\* write nothing: the table is the one the call found.
C12_MissingPersonNotFound ==
  ((Called("setPermission") \/ Called("removePermission"))
     /\ ~Stored(last.pre, last.args.ucinetid)) =>
    /\ ~last.ok
    /\ last.err = NotFound
    /\ last.item = {}
    /\ table = last.pre

\* a setPermission was called with an id in mixed case that has a record
\* under the id as written but none under its lowercase form, and rejected
C12_Witness ==
  /\ Called("setPermission") /\ ~last.ok
  /\ last.args.ucinetid = Mixed
  /\ Mixed \in DOMAIN last.pre /\ Lower \notin DOMAIN last.pre

\* C15: a creation, by createPerson or by upsertPerson for an id that has
\* no stored record, whose input lacks firstName or lastName rejects and
\* leaves the table as it was.
C15_CreateValidates ==
  ((Called("createPerson")
      \/ (Called("upsertPerson") /\ ~Stored(last.pre, last.args.person.ucinetid)))
     /\ ~ValidCreation(last.args.person)) =>
    ~last.ok /\ table = last.pre

(***************************************************************************)
(* scanPeople. The backend evaluates the items of the table in an order of *)
(* its own, a stretch of them per request: a page holds the items of the   *)
(* stretch that pass the filter and, unless the stretch ends the table,    *)
(* the key it stopped at (LastEvaluatedKey); the next request resumes      *)
(* after the key it carries (ExclusiveStartKey). A page that ends the      *)
(* table may still carry a key, the page after it is then empty. A request *)
(* may fail instead.                                                       *)
(***************************************************************************)
BackendFailure == "BackendFailure"

\* /^all$/i.test(service)
TestAll(service) ==
  service \in {"all", "All", "aLl", "alL", "ALl", "AlL", "aLL", "ALL"}

\* the parameters of the first request: no filter for 'all', else the names
\* the FilterExpression attribute_exists(#services.#serviceName) stands for
ScanParams(service) ==
  [FilterNames |-> IF TestAll(service) THEN {} ELSE {<<"_services", service>>},
   ExclusiveStartKey |-> {}]

\* attribute_exists(#services.#serviceName) on an item
AttributeExists(item, names) ==
  names[1] \in DOMAIN item /\ names[2] \in DOMAIN item[names[1]]

\* the order in which the backend evaluates the items of the table
ScanOrder(t) ==
  CHOOSE s \in [1..Cardinality(DOMAIN t) -> DOMAIN t] :
    \A k \in DOMAIN t : \E i \in DOMAIN s : s[i] = k

\* the place of the item a request resumes after
ScanFrom(t, params) ==
  IF params.ExclusiveStartKey = {} THEN 0
  ELSE CHOOSE i \in DOMAIN ScanOrder(t) : ScanOrder(t)[i] \in params.ExclusiveStartKey

\* the page for the stretch of items after place from up to place to
ScanPage(t, params, from, to, more) ==
  LET order == ScanOrder(t)
      stretch == SubSeq(order, from + 1, to)
      passing == SelectSeq(stretch,
                   LAMBDA k : \A names \in params.FilterNames : AttributeExists(t[k], names))
  IN  [err |-> NoError,
       Items |-> [i \in DOMAIN passing |-> t[passing[i]]],
       LastEvaluatedKey |-> IF more THEN {order[to]} ELSE {}]

ScanFailure == [err |-> BackendFailure, Items |-> <<>>, LastEvaluatedKey |-> {}]

\* scan(params): the replies the backend may give
DdbScan(t, params) ==
  LET n == Cardinality(DOMAIN t)
      from == ScanFrom(t, params)
      stretches == {st \in (from..n) \X BOOLEAN :
                      /\ st[1] < n => st[2]
                      /\ st[2] => st[1] > from}
  IN  {ScanPage(t, params, from, st[1], st[2]) : st \in stretches} \cup {ScanFailure}

\* scanPeople up to its first request: requests are the requests sent,
\* pages the replies taken, resolved and rejected what res and rej were
\* called with
scanPeople(service) ==
  LET params == ScanParams(service)
  IN  [state |-> "called", service |-> service, params |-> params, out |-> <<>>,
       requests |-> <<params>>, pages |-> <<>>, resolved |-> <<>>, rejected |-> <<>>]

\* onScan keeping the items of the page only
onScan_LastPageOnly(s, reply) ==
  LET got == [s EXCEPT !.pages = Append(@, reply)]
  IN  IF reply.err # NoError
      THEN [got EXCEPT !.rejected = Append(@, reply.err)]
      ELSE LET out == reply.Items
           IN  IF reply.LastEvaluatedKey # {}
               THEN LET params == [got.params EXCEPT
                                     !.ExclusiveStartKey = reply.LastEvaluatedKey]
                    IN  [got EXCEPT !.out = out, !.params = params,
                                    !.requests = Append(@, params)]
               ELSE [got EXCEPT !.out = out, !.resolved = Append(@, out)]

\* onScan resolving with the items it has when a request fails
onScan_ResolvesOnError(s, reply) ==
  LET got == [s EXCEPT !.pages = Append(@, reply)]
  IN  IF reply.err # NoError
      THEN [got EXCEPT !.resolved = Append(@, got.out)]
      ELSE LET out == got.out \o reply.Items
           IN  IF reply.LastEvaluatedKey # {}
               THEN LET params == [got.params EXCEPT
                                     !.ExclusiveStartKey = reply.LastEvaluatedKey]
                    IN  [got EXCEPT !.out = out, !.params = params,
                                    !.requests = Append(@, params)]
               ELSE [got EXCEPT !.out = out, !.resolved = Append(@, out)]

\* onScan sending the next request without the key of the page
onScan_NoStartKey(s, reply) ==
  LET got == [s EXCEPT !.pages = Append(@, reply)]
  IN  IF reply.err # NoError
      THEN [got EXCEPT !.rejected = Append(@, reply.err)]
      ELSE LET out == got.out \o reply.Items
           IN  IF reply.LastEvaluatedKey # {}
               THEN [got EXCEPT !.out = out, !.requests = Append(@, got.params)]
               ELSE [got EXCEPT !.out = out, !.resolved = Append(@, out)]

onScan(s, reply) ==
  LET got == [s EXCEPT !.pages = Append(@, reply)]
  IN  IF reply.err # NoError
      THEN [got EXCEPT !.rejected = Append(@, reply.err)]
      ELSE LET out == got.out \o reply.Items
           IN  IF reply.LastEvaluatedKey # {}
               THEN LET params == [got.params EXCEPT
                                     !.ExclusiveStartKey = reply.LastEvaluatedKey]
                    IN  [got EXCEPT !.out = out, !.params = params,
                                    !.requests = Append(@, params)]
               ELSE [got EXCEPT !.out = out, !.resolved = Append(@, out)]

\* the filters list is called with, and the tables it is called on
FiltersAll == {"all", "All", "ALL"}
FiltersService == {"svc1", "svc2", "svc3"}
ScanFilters == FiltersAll \cup FiltersService

\* a record as updatePerson leaves it when the id had none
MixedPerson == [ucinetid |-> Mixed, lastName |-> "Xi"]

BothPerson ==
  [ucinetid |-> <<"e", "f">>, firstName |-> "Ed", lastName |-> "Fo",
   _services |-> [svc1 |-> [service |-> "svc1", roles |-> <<>>],
                  svc2 |-> [service |-> "svc2", roles |-> <<"admin">>]]]

NonePerson ==
  [ucinetid |-> <<"g", "h">>, firstName |-> "Gu", lastName |-> "Ho",
   _services |-> EmptyObject]

ScanPersons == {OtherPerson, LowerPerson, MixedPerson, BothPerson, NonePerson}

ScanTables ==
  {[k \in {p.ucinetid : p \in S} |-> CHOOSE p \in S : p.ucinetid = k] :
     S \in SUBSET ScanPersons}

(***************************************************************************)
(* The state machine of list: one caller, no writer. A step is the call    *)
(* up to its first request, or one run of the callback onScan on a reply.  *)
(* The backend replies to every request.                                   *)
(***************************************************************************)
InitScan ==
  /\ table \in ScanTables
  /\ last = NoCall
  /\ scan = NoScan
  /\ calls = NoCalls

ScanPeople ==
  /\ scan = NoScan
  /\ calls = NoCalls
  /\ \E service \in ScanFilters : scan' = scanPeople(service)
  /\ UNCHANGED <<table, last, calls>>

\* a request is out: its reply arrives and onScan runs
OnScan ==
  /\ scan # NoScan
  /\ Len(scan.requests) > Len(scan.pages)
  /\ \E reply \in DdbScan(table, scan.requests[Len(scan.requests)]) :
       scan' = onScan(scan, reply)
  /\ UNCHANGED <<table, last, calls>>

\* the caller has taken what the promise settled with
ScanReturn ==
  /\ scan # NoScan
  /\ Len(scan.resolved) + Len(scan.rejected) > 0
  /\ scan' = NoScan
  /\ UNCHANGED <<table, last, calls>>

NextScan ==
  \/ ScanPeople
  \/ OnScan
  \/ ScanReturn

SpecScan == InitScan /\ [][NextScan]_vars /\ WF_vars(OnScan)

\* the sequence has each of its elements once
NoDuplicates(seq) == \A i, j \in DOMAIN seq : seq[i] = seq[j] => i = j

\* C13: what list resolves with holds each person once: under the filter
\* 'all', in any letter case, every person of the table; under a service
\* name, the persons whose map _services has an entry under that name, and
\* no other.
C13_ListComplete ==
  (scan # NoScan /\ scan.resolved # <<>>) =>
    LET people == scan.resolved[1]
        wanted == IF scan.service \in FiltersAll
                  THEN {table[k] : k \in DOMAIN table}
                  ELSE {table[k] : k \in {q \in DOMAIN table :
                          /\ "_services" \in DOMAIN table[q]
                          /\ scan.service \in DOMAIN table[q]["_services"]}}
    IN  /\ NoDuplicates(people)
        /\ {people[i] : i \in DOMAIN people} = wanted

\* a list under a service name has resolved after three pages and more,
\* with three persons, on a table that holds two other persons too
C13_Witness ==
  /\ scan # NoScan /\ scan.resolved # <<>>
  /\ scan.service = "svc1"
  /\ Len(scan.pages) >= 3
  /\ Len(scan.resolved[1]) = 3
  /\ Cardinality(DOMAIN table) = 5

\* C14: once a request of list has failed, on the first page or a later
\* one, the promise is rejected with the error of that request and with
\* nothing else: res is never called, so the caller receives none of the
\* items of the pages before.
C14_FailureRejects ==
  scan # NoScan =>
    \A i \in DOMAIN scan.pages :
      scan.pages[i].err # NoError =>
        /\ scan.resolved = <<>>
        /\ scan.rejected = <<scan.pages[i].err>>

\* the third request of a list has failed after two pages that brought
\* items
C14_Witness ==
  /\ scan # NoScan
  /\ Len(scan.pages) = 3
  /\ scan.pages[3].err = BackendFailure
  /\ scan.pages[1].Items # <<>> /\ scan.pages[2].Items # <<>>
  /\ Len(scan.out) >= 2
  /\ scan.rejected # <<>>

\* list has sent its requests one at a time, the first without a key and
\* each later one with the key the page before it ended on; it has called
\* res or rej once at most, and res only on a page without a key
ScanInOrder ==
  scan # NoScan =>
    /\ Len(scan.requests) - Len(scan.pages) \in {0, 1}
    /\ scan.requests[1].ExclusiveStartKey = {}
    /\ \A i \in DOMAIN scan.requests \ {1} :
         /\ scan.pages[i - 1].err = NoError
         /\ scan.pages[i - 1].LastEvaluatedKey # {}
         /\ scan.requests[i].ExclusiveStartKey = scan.pages[i - 1].LastEvaluatedKey
    /\ Len(scan.resolved) + Len(scan.rejected) <= 1
    /\ scan.resolved # <<>> =>
         /\ Len(scan.requests) = Len(scan.pages)
         /\ scan.pages[Len(scan.pages)].err = NoError
         /\ scan.pages[Len(scan.pages)].LastEvaluatedKey = {}
    /\ \A i \in DOMAIN scan.pages :
         (scan.pages[i].err = NoError /\ scan.pages[i].LastEvaluatedKey = {}) =>
           /\ i = Len(scan.pages)
           /\ Len(scan.resolved) = 1

ScanSettled == scan # NoScan /\ Len(scan.resolved) + Len(scan.rejected) = 1

\* C18: list sends its requests one at a time, each later one carrying the
\* key of the page before; it resolves once, and only on a page without a
\* key; and, the backend replying to every request, every list that was
\* called settles.
C18_ScanSequentialAndTerminates ==
  /\ []ScanInOrder
  /\ (scan # NoScan) ~> ScanSettled

\* a list has resolved on its fourth page, having sent four requests
C18_Witness ==
  /\ ScanSettled
  /\ scan.resolved # <<>>
  /\ Len(scan.requests) = 4 /\ Len(scan.pages) = 4
  /\ scan.requests[4].ExclusiveStartKey # {}

(***************************************************************************)
(* The operations, one backend call at a time. A call in flight holds its  *)
(* operation and arguments, the backend call it is about to make (pc), the *)
(* backend calls it has made with the error each came back with (sent),    *)
(* and, once pc is "done", what its promise settled with. The backend      *)
(* applies each call atomically; a call that fails has changed nothing.    *)
(***************************************************************************)
FirstCall(op) ==
  CASE op = "person" -> "find"
    [] op = "createPerson" -> "put"
    [] op = "updatePerson" -> "update"
    [] OTHER -> "lookup"

StartCall(op, args) ==
  [op |-> op, args |-> args, pc |-> FirstCall(op), sent |-> <<>>,
   ok |-> FALSE, err |-> NoError, item |-> {}]

\* the reply of a backend call that may fail
Failing(r, t, fails) == IF fails THEN Reply(BackendFailure, t, {}) ELSE r

\* the call after a backend call named name came back with e
Sent(call, name, e) == [call EXCEPT !.sent = Append(@, [call |-> name, err |-> e])]

Settle(call, ok, e, i) == [call EXCEPT !.pc = "done", !.ok = ok, !.err = e, !.item = i]

\* the key under which an operation reads back the person it wrote:
\* createPerson the key of its Item, updatePerson the id as written,
\* setPermission and removePermission the lowercase id
FindKey(call) ==
  CASE call.op = "person" -> call.args.ucinetid
    [] call.op \in {"setPermission", "removePermission"} -> toLowerCase(call.args.ucinetid)
    [] call.op \in {"createPerson", "updatePerson", "upsertPerson"} ->
         IF call.sent[Len(call.sent)].call = "put"
         THEN NewItem(call.args.person).ucinetid
         ELSE call.args.person.ucinetid

\* the callback of a backend call resolving though the call failed
Callback_Swallows(call, r, then) ==
  IF r.err # NoError THEN Settle(call, TRUE, NoError, {}) ELSE then

\* the callback of a backend call: if (err) rej(err), else the call goes on
Callback(call, r, then) ==
  IF r.err # NoError THEN Settle(call, FALSE, r.err, {}) ELSE then

\* the backend call at pc and what the operation does with its reply
BackendStep(t, call, fails) ==
  CASE call.pc = "lookup" ->
         LET id == IF call.op = "upsertPerson" THEN call.args.person.ucinetid
                   ELSE call.args.ucinetid
             r == Failing(DdbGet(t, toLowerCase(id)), t, fails)
             c == Sent(call, "get", r.err)
         IN  [table |-> r.table,
              call |-> Callback(c, r,
                         IF call.op = "upsertPerson"
                         THEN [c EXCEPT !.pc = IF r.item # {} THEN "update" ELSE "put"]
                         ELSE IF r.item = {} THEN Settle(c, FALSE, NotFound, {})
                         ELSE [c EXCEPT !.pc = IF call.op = "setPermission"
                                               THEN "set" ELSE "remove"])]
    [] call.pc = "put" ->
         LET r == Failing(DdbPut(t, NewItem(call.args.person)), t, fails)
             c == Sent(call, "put", r.err)
         IN  [table |-> r.table, call |-> Callback(c, r, [c EXCEPT !.pc = "find"])]
    [] call.pc = "update" ->
         LET person == call.args.person
             values == [k \in DOMAIN person \ NotUpdated |-> person[k]]
             r == Failing(DdbUpdateSet(t, person.ucinetid, values), t, fails)
             c == Sent(call, "update", r.err)
         IN  [table |-> r.table, call |-> Callback(c, r, [c EXCEPT !.pc = "find"])]
    [] call.pc = "set" ->
         LET permission == call.args.permission
             r == Failing(DdbUpdateSetNested(t, toLowerCase(call.args.ucinetid),
                                             permission.service, permission), t, fails)
             c == Sent(call, "update", r.err)
         IN  [table |-> r.table, call |-> Callback(c, r, [c EXCEPT !.pc = "find"])]
    [] call.pc = "remove" ->
         LET r == Failing(DdbUpdateRemoveNested(t, toLowerCase(call.args.ucinetid),
                                                call.args.service), t, fails)
             c == Sent(call, "update", r.err)
         IN  [table |-> r.table, call |-> Callback(c, r, [c EXCEPT !.pc = "find"])]
    [] call.pc = "find" ->
         LET r == Failing(DdbGet(t, FindKey(call)), t, fails)
             c == Sent(call, "get", r.err)
         IN  [table |-> r.table, call |-> Callback(c, r, Settle(c, TRUE, NoError, r.item))]

\* the calls made concurrently: two upserts of one person with different
\* fields, setPermission and removePermission for two services
PersonA == [ucinetid |-> Lower, firstName |-> "Al", lastName |-> "Wu", middleName |-> "M"]
PersonB == [ucinetid |-> Mixed, firstName |-> "Bo", lastName |-> "Wu", email |-> "bo@uci.edu"]

PermissionA == [service |-> "svc1", roles |-> <<"admin">>, settings |-> [a |-> 1]]
PermissionB == [service |-> "svc2", roles |-> <<>>]

CallInputs ==
  {[op |-> "upsertPerson", args |-> [person |-> p]] : p \in {PersonA, PersonB}}
    \cup {[op |-> "setPermission", args |-> [ucinetid |-> Lower, permission |-> PermissionA]],
          [op |-> "setPermission", args |-> [ucinetid |-> Mixed, permission |-> PermissionB]]}
    \cup {[op |-> "removePermission", args |-> [ucinetid |-> Lower, service |-> s]] :
            s \in Services}

\* no person, a person as createPerson and setPermission leave it, a person
\* as updatePerson leaves it when the id had no record
CallTables ==
  {EmptyObject, Prop(Lower, LowerPerson), Prop(Lower, [ucinetid |-> Lower, lastName |-> "Xi"])}

NoWrite == [op |-> "none"]

(***************************************************************************)
(* The state machine of concurrent requests: each caller makes one call,   *)
(* and the backend calls of the calls in flight interleave in any order.   *)
(* last records the write the backend applied last and whose it was.       *)
(***************************************************************************)
InitCalls ==
  /\ table \in CallTables
  /\ last = NoWrite
  /\ scan = NoScan
  /\ calls = NoCalls

Call(c, inputs) ==
  /\ calls[c] = Idle
  /\ scan = NoScan
  /\ \E in \in inputs : calls' = [calls EXCEPT ![c] = StartCall(in.op, in.args)]
  /\ UNCHANGED <<table, last, scan>>

BackendCall(c, fails) ==
  /\ calls[c] # Idle
  /\ calls[c].pc # "done"
  /\ LET r == BackendStep(table, calls[c], fails)
         made == r.call.sent[Len(r.call.sent)]
     IN  /\ table' = r.table
         /\ calls' = [calls EXCEPT ![c] = r.call]
         /\ last' = IF made.call # "get" /\ made.err = NoError
                    THEN [op |-> made.call, caller |-> c]
                    ELSE last
  /\ UNCHANGED scan

NextCalls ==
  \/ \E c \in Callers : Call(c, CallInputs)
  \/ \E c \in Callers : BackendCall(c, FALSE)

SpecCalls == InitCalls /\ [][NextCalls]_vars

\* caller c has a call of operation op, in flight or settled
Calling(c, op) == calls[c] # Idle /\ calls[c].op = op

Done(c) == calls[c] # Idle /\ calls[c].pc = "done"

\* the call of c has made the backend call named name, and it succeeded
HasSent(c, name) ==
  calls[c] # Idle /\ \E i \in DOMAIN calls[c].sent :
    calls[c].sent[i].call = name /\ calls[c].sent[i].err = NoError

\* C16: when two setPermission calls for different services of one stored
\* person have run, their backend calls interleaved in any order and no
\* other call made, both have resolved and the map _services of the person
\* holds both permissions as given.
C16_ConcurrentSetsBothStored ==
  \A c, d \in Callers :
    (/\ c # d
     /\ Calling(c, "setPermission") /\ Calling(d, "setPermission")
     /\ \A e \in Callers \ {c, d} : calls[e] = Idle
     /\ toLowerCase(calls[c].args.ucinetid) = toLowerCase(calls[d].args.ucinetid)
     /\ calls[c].args.permission.service # calls[d].args.permission.service
     /\ Stored(table, calls[c].args.ucinetid)
     /\ Done(c) /\ Done(d)) =>
      LET key == toLowerCase(calls[c].args.ucinetid)
      IN  /\ calls[c].ok /\ calls[d].ok
          /\ HasServices(table, key)
          /\ \A e \in {c, d} :
               LET permission == calls[e].args.permission
               IN  /\ permission.service \in DOMAIN table[key]["_services"]
                   /\ table[key]["_services"][permission.service] = permission

\* the call of c is an upsert that found no record and has put its Item
Created(c) ==
  /\ Calling(c, "upsertPerson")
  /\ calls[c].sent # <<>> /\ calls[c].sent[1].err = NoError
  /\ HasSent(c, "put")

\* C19: when two upserts of one id have both found no record and both put
\* their Item, no other call made, the record of the id is the Item of the
\* upsert whose put was applied last, and holds nothing of the other's.
C19_LastCreateWins ==
  \A c, d \in Callers :
    (/\ c # d
     /\ Created(c) /\ Created(d)
     /\ \A e \in Callers \ {c, d} : calls[e] = Idle
     /\ last.caller = d) =>
      LET Item == NewItem(calls[d].args.person)
      IN  /\ Item.ucinetid \in DOMAIN table
          /\ table[Item.ucinetid] = Item
          /\ Done(d) => calls[d].ok /\ calls[d].item = {Item}

\* two upserts with different fields have both found no record, the first
\* has put a middle name, the second has put over it, and both have
\* resolved, each with the record it read back
C19_Witness ==
  /\ Created("c1") /\ Created("c2") /\ calls["c3"] = Idle
  /\ calls["c1"].args.person = PersonA /\ calls["c2"].args.person = PersonB
  /\ last = [op |-> "put", caller |-> "c2"]
  /\ Done("c1") /\ Done("c2")
  /\ calls["c1"].item = {NewItem(PersonA)}
  /\ calls["c2"].item = {NewItem(PersonB)}
  /\ "middleName" \notin DOMAIN table[Lower]

\* the services that have an entry in the record under key
Entries(t, key) == IF HasServices(t, key) THEN DOMAIN t[key]["_services"] ELSE {}

\* the step is a backend call of the call of c
StepOf(c) == calls[c] # Idle /\ calls'[c] # calls[c]

\* C20 as claimed: the entry that a completed setPermission wrote stays in
\* the map _services until a removePermission for its service is applied: a
\* step after which such an entry is gone is the update of a
\* removePermission for the service of that entry, whatever upserts,
\* setPermissions and removePermissions run concurrently.
C20_EntryStaysUntilRemoved ==
  [][\A key \in DOMAIN table : \A service \in Entries(table, key) :
       (/\ service \notin Entries(table', key)
        /\ \E d \in Callers :
             /\ Calling(d, "setPermission") /\ Done(d) /\ calls[d].ok
             /\ toLowerCase(calls[d].args.ucinetid) = key
             /\ calls[d].args.permission.service = service) =>
         \E c \in Callers :
           /\ StepOf(c)
           /\ calls[c].op = "removePermission" /\ calls[c].pc = "remove"
           /\ toLowerCase(calls[c].args.ucinetid) = key
           /\ calls[c].args.service = service]_vars

\* C20 as amended: a step after which an entry is gone, or is another, is
\* the update of a removePermission or of a setPermission for the service of
\* that entry, or the put of an upsert that had found no record when it
\* looked the id up. The update of an upsert that found the record changes
\* no entry.
C20_EntryStaysUntilRemovedOrCreated ==
  [][\A key \in DOMAIN table : \A service \in Entries(table, key) :
       (service \notin Entries(table', key)
          \/ table'[key]["_services"][service] # table[key]["_services"][service]) =>
         \E c \in Callers :
           /\ StepOf(c)
           /\ \/ /\ calls[c].op = "removePermission" /\ calls[c].pc = "remove"
                 /\ toLowerCase(calls[c].args.ucinetid) = key
                 /\ calls[c].args.service = service
              \/ /\ calls[c].op = "setPermission" /\ calls[c].pc = "set"
                 /\ toLowerCase(calls[c].args.ucinetid) = key
                 /\ calls[c].args.permission.service = service
              \/ /\ calls[c].op = "upsertPerson" /\ calls[c].pc = "put"
                 /\ toLowerCase(calls[c].args.person.ucinetid) = key]_vars

\* a setPermission for svc2 has completed, a removePermission has removed
\* the entry for svc1, and an upsert that found the person has applied its
\* update after both: the entry for svc2 is there beside the fields the
\* upsert set
C20_Witness ==
  /\ Calling("c1", "setPermission") /\ Done("c1") /\ calls["c1"].ok
  /\ calls["c1"].args.permission = PermissionB
  /\ Calling("c2", "upsertPerson") /\ HasSent("c2", "update")
  /\ last = [op |-> "update", caller |-> "c2"]
  /\ Calling("c3", "removePermission") /\ HasSent("c3", "update")
  /\ calls["c3"].args.service = "svc1"
  /\ Entries(table, Lower) = {"svc2"}
  /\ table[Lower].firstName = calls["c2"].args.person.firstName

(***************************************************************************)
(* The state machine of a backend that may fail: one call at a time, of    *)
(* any operation, list included; each backend call of the call either is   *)
(* applied or fails and changes nothing. The caller takes the result       *)
(* before the next call is made.                                           *)
(***************************************************************************)
FailInputs ==
  CallInputs
    \cup {[op |-> "person", args |-> [ucinetid |-> Mixed]],
          [op |-> "createPerson", args |-> [person |-> PersonA]],
          [op |-> "updatePerson", args |-> [person |-> PersonB]],
          [op |-> "updatePerson", args |-> [person |-> Prop("ucinetid", Lower)]]}

InitFail ==
  /\ table \in CallTables \cup InitialTables
  /\ last = NoWrite
  /\ scan = NoScan
  /\ calls = NoCalls

CallAlone(c) ==
  /\ calls = NoCalls
  /\ Call(c, FailInputs)

\* the caller has taken what the promise of its call settled with
Finish(c) ==
  /\ calls[c] # Idle
  /\ calls[c].pc = "done"
  /\ calls' = [calls EXCEPT ![c] = Idle]
  /\ UNCHANGED <<table, last, scan>>

NextFail ==
  \/ \E c \in Callers : CallAlone(c)
  \/ \E c \in Callers, fails \in BOOLEAN : BackendCall(c, fails)
  \/ \E c \in Callers : Finish(c)
  \/ ScanPeople
  \/ OnScan
  \/ ScanReturn

SpecFail == InitFail /\ [][NextFail]_vars

\* C17: a backend call that failed is the last backend call its operation
\* made: the operation has made no call after it, the failed call again or
\* another, and its promise is rejected with the error of that call, and is
\* not resolved. So for get, put and update, and so for the scan of list.
C17_FailurePropagates ==
  /\ \A c \in Callers : calls[c] # Idle =>
       \A i \in DOMAIN calls[c].sent :
         calls[c].sent[i].err # NoError =>
           /\ i = Len(calls[c].sent)
           /\ calls[c].pc = "done"
           /\ ~calls[c].ok
           /\ calls[c].err = calls[c].sent[i].err
           /\ calls[c].item = {}
  /\ scan # NoScan =>
       \A i \in DOMAIN scan.pages :
         scan.pages[i].err # NoError =>
           /\ i = Len(scan.pages)
           /\ Len(scan.requests) = i
           /\ scan.rejected = <<scan.pages[i].err>>
           /\ scan.resolved = <<>>

\* a setPermission has found the person and written its entry, and the get
\* that reads the person back has failed
C17_Witness ==
  \E c \in Callers :
    /\ Calling(c, "setPermission")
    /\ Len(calls[c].sent) = 3
    /\ calls[c].sent[2] = [call |-> "update", err |-> NoError]
    /\ calls[c].sent[3] = [call |-> "get", err |-> BackendFailure]
    /\ calls[c].args.permission.service \in Entries(table, Lower)
    /\ calls[c].pc = "done"

====
